---------------------------- MODULE Spec2Model ----------------------------
(***************************************************************************)
(* Model of the network generators of infection-resistant-networks:        *)
(*   src/networkgen.py                 main, union_components,             *)
(*                                     make_complete_clique_gate_graph,    *)
(*                                     output_graph                        *)
(*   src/networkgen/_social_circles.py make_social_circles_network,        *)
(*                                     choose_empty_spot,                  *)
(*                                     search_for_neighbors, distance      *)
(* Spec   runs networkgen.py: main on every bounded argv, and output_graph *)
(*        on every bounded graph.                                          *)
(* SpecSC runs make_social_circles_network on every bounded input.         *)
(***************************************************************************)
EXTENDS Integers, Sequences, FiniteSets, TLC

VARIABLES
    \* ---- networkgen.py ----
    entry,               \* the function the run entered: "main" or "output_graph"
    pc,                  \* position in the code
    result,              \* "running", "usage", "ok" or the exception raised
    argv,                \* main: the argument vector, argv[1] is the program name
    num_big_components,  \* make_complete_clique_gate_graph: parameters
    big_component_size,
    gate_size,
    gates,               \* list of the gate graphs
    big_comps,           \* list of the big-component graphs
    master_graph,        \* the union, then the wired graph
    current_gate_ind,
    comp_ind,            \* index of src_comp in big_comps[:-1] (0-based)
    dest_ind,            \* index of dest_comp in big_comps (0-based)
    gate_nodes,
    src_nodes,
    dest_nodes,
    i,                   \* enumerate index of the two wiring loops
    G,                   \* output_graph: the graph being printed
    G_edges,             \* the list G.edges iterates
    node_to_id,
    current_id,
    first_line,          \* the node count printed first (-1: nothing printed)
    edge_lines,          \* printed edge lines, <<id_a, id_b>>
    layout_lines,        \* printed layout lines, <<id, node>>: node stands for its coordinate
    \* ---- networkgen/_social_circles.py ----
    sc_pc,               \* position in make_social_circles_network ("off": not run)
    sc_result,           \* "running", "returned", "None" or the exception raised
    agent_type_to_quantity, \* the input mapping, a list of entries in dict order
    grid_size,
    force_connected,
    max_tries,
    attempt,
    agents,              \* the entries sorted by reach, largest first
    grid,
    M,
    loc_to_id,
    sc_current_id,       \* current_id of make_social_circles_network
    type_ind,            \* index of (agent, quantity) in agents (0-based)
    placed,              \* iterations done of the placement loop of this type
    new_agents,
    colors,
    layout,
    sc_G                 \* the graph nx.Graph(M)

cgVars  == <<num_big_components, big_component_size, gate_size, gates, big_comps,
             master_graph, current_gate_ind, comp_ind, dest_ind, gate_nodes,
             src_nodes, dest_nodes, i>>
outVars == <<G, G_edges, node_to_id, current_id, first_line, edge_lines, layout_lines>>
scVars  == <<sc_pc, sc_result, agent_type_to_quantity, grid_size, force_connected,
             max_tries, attempt, agents, grid, M, loc_to_id, sc_current_id, type_ind,
             placed, new_agents, colors, layout, sc_G>>
vars    == <<entry, pc, result, argv, cgVars, outVars, scVars>>

---------------------------------------------------------------------------
(* Bounds of the model *)
MaxArgs == 3
MaxComponents == 4
MaxComponentSize == 3
MaxGateSize == 4
MaxNodes == 3
MaxEdges == 3

---------------------------------------------------------------------------
(* Python helpers *)

\* range(start, stop): the list start, start+1, ..., stop-1
Range(start, stop) ==
    IF stop > start THEN [k \in 1..(stop - start) |-> start + k - 1] ELSE <<>>

\* range(start, stop, step) for step > 0
RangeStep(start, stop, step) ==
    IF stop > start
    THEN [k \in 1..((stop - start + step - 1) \div step) |-> start + (k - 1) * step]
    ELSE <<>>

\* sum(range(n))
SumRangeInclusive(n) == (n * (n + 1)) \div 2
SumRange(n) == (n * (n - 1)) \div 2

\* seq[a:b] with 0-based a, b already clipped to 0..len(seq)
Slice(seq, a, b) == IF b > a THEN SubSeq(seq, a + 1, b) ELSE <<>>

SeqToSet(seq) == {seq[k] : k \in DOMAIN seq}

RECURSIVE Concat(_)
Concat(seqs) == IF seqs = <<>> THEN <<>> ELSE Head(seqs) \o Concat(Tail(seqs))

\* itertools.combinations(nodes, 2), in its lexicographic order
RECURSIVE Combinations(_)
Combinations(nodes) ==
    IF Len(nodes) < 2 THEN <<>>
    ELSE [k \in 1..(Len(nodes) - 1) |-> <<nodes[1], nodes[k + 1]>>]
         \o Combinations(Tail(nodes))

---------------------------------------------------------------------------
(* networkx.Graph as the code uses it: an insertion-ordered node dict and, *)
(* per node, an insertion-ordered neighbour dict.                           *)

EmptyGraph == [nodes |-> <<>>, adj |-> <<>>]

HasNode(g, n) == n \in DOMAIN g.adj

AddNode(g, n) ==
    IF HasNode(g, n) THEN g
    ELSE [nodes |-> Append(g.nodes, n),
          adj   |-> [m \in DOMAIN g.adj \cup {n} |-> IF m = n THEN <<>> ELSE g.adj[m]]]

AddNbr(g, u, v) ==
    IF v \in SeqToSet(g.adj[u]) THEN g
    ELSE [g EXCEPT !.adj[u] = Append(@, v)]

AddEdge(g, u, v) == AddNbr(AddNbr(AddNode(AddNode(g, u), v), u, v), v, u)

\* seq without the repetitions of an element after its first occurrence
Dedup(seq) ==
    LET First(k) == \A j \in 1..(k - 1) : seq[j] # seq[k]
        kept == SelectSeq([k \in 1..Len(seq) |-> k], First)
    IN  [j \in 1..Len(kept) |-> seq[kept[j]]]

\* G.add_nodes_from(ns)
AddNodesFrom(g, ns) ==
    LET IsNew(n) == ~HasNode(g, n)
        new == Dedup(SelectSeq(ns, IsNew))
    IN  [nodes |-> g.nodes \o new,
         adj   |-> [m \in DOMAIN g.adj \cup SeqToSet(new) |->
                        IF HasNode(g, m) THEN g.adj[m] ELSE <<>>]]

\* G.add_edges_from(es): add_edge(u, v) for each <<u, v>> of es, in order
AddEdgesFrom(g, es) ==
    LET \* the dict writes adj[u][v], adj[v][u] of every edge, in order
        writes == [k \in 1..(2 * Len(es)) |->
                      LET e == es[(k + 1) \div 2]
                      IN  IF k % 2 = 1 THEN <<e[1], e[2]>> ELSE <<e[2], e[1]>>]
        g1 == AddNodesFrom(g, [k \in 1..(2 * Len(es)) |-> writes[k][1]])
        NewNbrs(n) ==
            LET Mine(w) == w[1] = n /\ w[2] \notin SeqToSet(g1.adj[n])
                mine == SelectSeq(writes, Mine)
            IN  Dedup([k \in 1..Len(mine) |-> mine[k][2]])
    IN  [nodes |-> g1.nodes,
         adj   |-> [n \in DOMAIN g1.adj |-> g1.adj[n] \o NewNbrs(n)]]

\* G.edges: nodes in insertion order, each with its not yet visited neighbours
Edges(g) ==
    LET n == Len(g.nodes)
        Deg(k) == Len(g.adj[g.nodes[k]])
        d == IF n = 0 THEN 0 ELSE CHOOSE x \in {Deg(k) : k \in 1..n} :
                                      \A y \in {Deg(k) : k \in 1..n} : y <= x
        Pos(m) == CHOOSE k \in 1..n : g.nodes[k] = m
        Cell(c) == <<((c - 1) \div d) + 1, ((c - 1) % d) + 1>>
        Yielded(c) == /\ Cell(c)[2] <= Deg(Cell(c)[1])
                      /\ Pos(g.adj[g.nodes[Cell(c)[1]]][Cell(c)[2]]) >= Cell(c)[1]
        kept == SelectSeq([c \in 1..(n * d) |-> c], Yielded)
        Edge(c) == LET m == g.nodes[Cell(c)[1]] IN <<m, g.adj[m][Cell(c)[2]]>>
    IN  [j \in 1..Len(kept) |-> Edge(kept[j])]

\* nx.complete_graph(node_ids)
CompleteGraph(node_ids) ==
    AddEdgesFrom(AddNodesFrom(EmptyGraph, node_ids), Combinations(node_ids))

\* union_components(components): per component add_nodes_from, then add_edges_from
RECURSIVE UnionInto(_, _, _)
UnionInto(master, components, k) ==
    IF k > Len(components) THEN master
    ELSE LET withNodes == AddNodesFrom(master, components[k].nodes)
             withEdges == AddEdgesFrom(withNodes, Edges(components[k]))
         IN  UnionInto(withEdges, components, k + 1)

union_components(components) == UnionInto(EmptyGraph, components, 1)

\* Set views of a graph, for stating properties
NodeSet(g) == DOMAIN g.adj
Adjacent(g, u, v) == HasNode(g, u) /\ v \in SeqToSet(g.adj[u])
Nbrs(g, u) == SeqToSet(g.adj[u])

---------------------------------------------------------------------------
(* make_complete_clique_gate_graph: the lists built before the wiring *)

GateNodeIds(n, gs) ==
    LET starts == RangeStep(0, SumRange(n) * gs, gs)
    IN  [k \in DOMAIN starts |-> Range(starts[k], starts[k] + gs)]

ComponentNodeIds(numGates, gs, n, bs) ==
    LET starts == RangeStep(numGates * gs, numGates * gs + n * bs, bs)
    IN  [k \in DOMAIN starts |-> Range(starts[k], starts[k] + bs)]

---------------------------------------------------------------------------
(* main *)

NonInt == [isInt |-> FALSE, val |-> 0]
IntTok(v) == [isInt |-> TRUE, val |-> v]

\* the integers tried at each position of argv (1-based; position 1 is the program)
ArgValues(k) ==
    CASE k = 2 -> 1..MaxComponents
      [] k = 3 -> 1..MaxComponentSize
      [] k = 4 -> 1..MaxGateSize
      [] OTHER -> {1}

ArgVectors ==
    UNION { { [k \in 1..n |-> IF k = 1 THEN NonInt ELSE t[k]] :
                t \in { u \in [1..n -> {NonInt} \cup {IntTok(v) : v \in 1..(MaxComponents + MaxComponentSize + MaxGateSize)}] :
                          \A k \in 2..n : u[k] = NonInt \/ u[k].val \in ArgValues(k) } }
            : n \in 1..(MaxArgs + 1) }

Main ==
    /\ pc = "main"
    /\ IF Len(argv) < 3
       THEN /\ result' = "usage"
            /\ pc' = "done"
            /\ UNCHANGED cgVars
       ELSE IF ~argv[2].isInt \/ ~argv[3].isInt
       THEN /\ result' = "ValueError"
            /\ pc' = "done"
            /\ UNCHANGED cgVars
       ELSE IF Len(argv) < 4
       THEN /\ result' = "IndexError"
            /\ pc' = "done"
            /\ UNCHANGED cgVars
       ELSE IF ~argv[4].isInt
       THEN /\ result' = "ValueError"
            /\ pc' = "done"
            /\ UNCHANGED cgVars
       ELSE /\ num_big_components' = argv[2].val
            /\ big_component_size' = argv[3].val
            /\ gate_size' = argv[4].val
            /\ pc' = "make"
            /\ UNCHANGED <<result, gates, big_comps, master_graph, current_gate_ind,
                           comp_ind, dest_ind, gate_nodes, src_nodes, dest_nodes, i>>
    /\ UNCHANGED <<entry, argv, outVars, scVars>>


---------------------------------------------------------------------------
(* make_complete_clique_gate_graph *)

\* lines 46-57: the gates, the big components and their union
Make ==
    /\ pc = "make"
    /\ LET gate_node_ids == GateNodeIds(num_big_components, gate_size)
           component_node_ids == ComponentNodeIds(Len(gate_node_ids), gate_size,
                                                  num_big_components, big_component_size)
           gs == [k \in DOMAIN gate_node_ids |-> CompleteGraph(gate_node_ids[k])]
           bc == [k \in DOMAIN component_node_ids |-> CompleteGraph(component_node_ids[k])]
       IN  /\ gates' = gs
           /\ big_comps' = bc
           /\ master_graph' = union_components(gs \o bc)
    /\ current_gate_ind' = 0
    /\ comp_ind' = 0
    /\ pc' = "outer"
    /\ UNCHANGED <<entry, result, argv, num_big_components, big_component_size, gate_size,
                   dest_ind, gate_nodes, src_nodes, dest_nodes, i, outVars, scVars>>

\* line 61: for comp_ind, src_comp in enumerate(big_comps[:-1])
OuterLoop ==
    /\ pc = "outer"
    /\ IF comp_ind < Len(big_comps) - 1
       THEN /\ dest_ind' = comp_ind + 1
            /\ pc' = "inner"
       ELSE /\ pc' = "ret"
            /\ UNCHANGED dest_ind
    /\ UNCHANGED <<entry, result, argv, num_big_components, big_component_size, gate_size,
                   gates, big_comps, master_graph, current_gate_ind, comp_ind,
                   gate_nodes, src_nodes, dest_nodes, i, outVars, scVars>>

\* lines 62-67: for dest_comp in big_comps[comp_ind+1:], up to the first wiring loop
InnerLoop ==
    /\ pc = "inner"
    /\ IF dest_ind < Len(big_comps)
       THEN /\ gate_nodes' = gates[current_gate_ind + 1].nodes
            /\ current_gate_ind' = current_gate_ind + 1
            /\ src_nodes' = big_comps[comp_ind + 1].nodes
            /\ i' = 0
            /\ pc' = "src"
            /\ UNCHANGED comp_ind
       ELSE /\ comp_ind' = comp_ind + 1
            /\ pc' = "outer"
            /\ UNCHANGED <<gate_nodes, current_gate_ind, src_nodes, i>>
    /\ UNCHANGED <<entry, result, argv, num_big_components, big_component_size, gate_size,
                   gates, big_comps, master_graph, dest_ind, dest_nodes, outVars, scVars>>

\* line 68: gate_nodes[:len(gate_nodes)//2]
WholeGate(nodes) == nodes
FirstHalf(nodes) == Slice(nodes, 0, Len(nodes) \div 2)

\* line 72: gate_nodes[len(gate_nodes)//2:]
SecondHalfWithoutItsFirst(nodes) == Slice(nodes, Len(nodes) \div 2 + 1, Len(nodes))
SecondHalf(nodes) == Slice(nodes, Len(nodes) \div 2, Len(nodes))

\* lines 68-71: for i, node in enumerate(gate_nodes[:len(gate_nodes)//2])
SrcEdge ==
    /\ pc = "src"
    /\ LET half == FirstHalf(gate_nodes)
       IN  IF i < Len(half)
           THEN IF i < Len(src_nodes)
                THEN /\ master_graph' = AddEdge(master_graph, half[i + 1], src_nodes[i + 1])
                     /\ i' = i + 1
                     /\ UNCHANGED <<pc, result, dest_nodes>>
                ELSE /\ result' = "IndexError"
                     /\ pc' = "done"
                     /\ UNCHANGED <<master_graph, i, dest_nodes>>
           ELSE /\ dest_nodes' = big_comps[dest_ind + 1].nodes
                /\ i' = 0
                /\ pc' = "dest"
                /\ UNCHANGED <<master_graph, result>>
    /\ UNCHANGED <<entry, argv, num_big_components, big_component_size, gate_size,
                   gates, big_comps, current_gate_ind, comp_ind, dest_ind,
                   gate_nodes, src_nodes, outVars, scVars>>

\* lines 72-73: for i, node in enumerate(gate_nodes[len(gate_nodes)//2:])
DestEdge ==
    /\ pc = "dest"
    /\ LET half == SecondHalf(gate_nodes)
       IN  IF i < Len(half)
           THEN IF i < Len(dest_nodes)
                THEN /\ master_graph' = AddEdge(master_graph, half[i + 1], dest_nodes[i + 1])
                     /\ i' = i + 1
                     /\ UNCHANGED <<pc, result, dest_ind>>
                ELSE /\ result' = "IndexError"
                     /\ pc' = "done"
                     /\ UNCHANGED <<master_graph, i, dest_ind>>
           ELSE /\ dest_ind' = dest_ind + 1
                /\ pc' = "inner"
                /\ UNCHANGED <<master_graph, result, i>>
    /\ UNCHANGED <<entry, argv, num_big_components, big_component_size, gate_size,
                   gates, big_comps, current_gate_ind, comp_ind,
                   gate_nodes, src_nodes, dest_nodes, outVars, scVars>>

\* line 75 and main's lines 20-22: return master_graph; output_graph(graph)
Return ==
    /\ pc = "ret"
    /\ G' = master_graph
    /\ pc' = "output"
    /\ UNCHANGED <<entry, result, argv, cgVars, G_edges, node_to_id, current_id,
                   first_line, edge_lines, layout_lines, scVars>>

---------------------------------------------------------------------------
(* output_graph *)

\* lines 82-88
OutStart ==
    /\ pc = "output"
    /\ first_line' = Len(G.nodes)
    /\ node_to_id' = <<>>
    /\ current_id' = 0
    /\ G_edges' = Edges(G)
    /\ pc' = "edges"
    /\ UNCHANGED <<entry, result, argv, cgVars, G, edge_lines, layout_lines, scVars>>

\* the identifier assignment of lines 91-96 for one endpoint
AssignWithoutIncrement(map, next, n) ==
    IF n \in DOMAIN map THEN [map |-> map, next |-> next]
    ELSE [map  |-> [m \in DOMAIN map \cup {n} |-> IF m = n THEN next ELSE map[m]],
          next |-> next]
Assign(map, next, n) ==
    IF n \in DOMAIN map THEN [map |-> map, next |-> next]
    ELSE [map  |-> [m \in DOMAIN map \cup {n} |-> IF m = n THEN next ELSE map[m]],
          next |-> next + 1]

\* lines 89-97: one iteration of for e in G.edges (the loop ends with line 100)
OutEdge ==
    /\ pc = "edges"
    /\ LET es == G_edges
           k  == Len(edge_lines) + 1
       IN  IF k <= Len(es)
           THEN LET n0 == es[k][1]
                    n1 == es[k][2]
                    a0 == Assign(node_to_id, current_id, n0)
                    a1 == Assign(a0.map, a0.next, n1)
                IN  /\ node_to_id' = a1.map
                    /\ current_id' = a1.next
                    /\ edge_lines' = Append(edge_lines, <<a1.map[n0], a1.map[n1]>>)
                    /\ UNCHANGED pc
           ELSE /\ pc' = "layout"
                /\ UNCHANGED <<node_to_id, current_id, edge_lines>>
    /\ UNCHANGED <<entry, result, argv, cgVars, G, G_edges, first_line, layout_lines, scVars>>

\* line 101: kamada_kawai_layout(G) holds one coordinate per node of G, in node order
LayoutKeysOfEdgeNodes(g) ==
    LET Touched(n) == g.adj[n] # <<>> IN SelectSeq(g.nodes, Touched)
LayoutKeys(g) == g.nodes

\* lines 102-104: one iteration of for node, coordinate in layout.items()
OutLayout ==
    /\ pc = "layout"
    /\ LET keys == LayoutKeys(G)
           k    == Len(layout_lines) + 1
       IN  IF k <= Len(keys)
           THEN IF keys[k] \in DOMAIN node_to_id
                THEN /\ layout_lines' = Append(layout_lines, <<node_to_id[keys[k]], keys[k]>>)
                     /\ UNCHANGED <<pc, result>>
                ELSE /\ result' = "KeyError"
                     /\ pc' = "done"
                     /\ UNCHANGED layout_lines
           ELSE /\ result' = "ok"
                /\ pc' = "done"
                /\ UNCHANGED layout_lines
    /\ UNCHANGED <<entry, argv, cgVars, G, G_edges, node_to_id, current_id, first_line,
                   edge_lines, scVars>>

---------------------------------------------------------------------------
(* The runs of networkgen.py *)

NoGraphState ==
    /\ num_big_components = 0 /\ big_component_size = 0 /\ gate_size = 0
    /\ gates = <<>> /\ big_comps = <<>> /\ master_graph = EmptyGraph
    /\ current_gate_ind = 0 /\ comp_ind = 0 /\ dest_ind = 0
    /\ gate_nodes = <<>> /\ src_nodes = <<>> /\ dest_nodes = <<>> /\ i = 0

NoOutputState ==
    /\ G_edges = <<>> /\ node_to_id = <<>> /\ current_id = 0 /\ first_line = -1
    /\ edge_lines = <<>> /\ layout_lines = <<>>

\* the graphs handed to output_graph directly: nodes 1..n added in order, then
\* up to MaxEdges add_edge calls
InputGraphs ==
    UNION { { AddEdgesFrom(AddNodesFrom(EmptyGraph, Range(1, n + 1)), es) :
                es \in UNION { [1..m -> (1..n) \X (1..n)] : m \in 0..MaxEdges } }
            : n \in 1..MaxNodes }

\* make_social_circles_network is not run
ScOff ==
    /\ sc_pc = "off" /\ sc_result = "running"
    /\ agent_type_to_quantity = <<>> /\ grid_size = <<0, 0>>
    /\ force_connected = FALSE /\ max_tries = 0 /\ attempt = 0
    /\ agents = <<>> /\ grid = <<>> /\ M = <<>> /\ loc_to_id = <<>>
    /\ sc_current_id = 0 /\ type_ind = 0 /\ placed = 0 /\ new_agents = <<>>
    /\ colors = <<>> /\ layout = <<>> /\ sc_G = EmptyGraph

InitMain ==
    /\ entry = "main"
    /\ pc = "main"
    /\ argv \in ArgVectors
    /\ G = EmptyGraph

InitOutput ==
    /\ entry = "output_graph"
    /\ pc = "output"
    /\ argv = <<>>
    /\ G \in InputGraphs

Init ==
    /\ InitMain \/ InitOutput
    /\ result = "running"
    /\ NoGraphState
    /\ NoOutputState
    /\ ScOff

Next ==
    \/ Main
    \/ Make
    \/ OuterLoop
    \/ InnerLoop
    \/ SrcEdge
    \/ DestEdge
    \/ Return
    \/ OutStart
    \/ OutEdge
    \/ OutLayout

Spec == Init /\ [][Next]_vars


---------------------------------------------------------------------------
(* Properties of make_complete_clique_gate_graph *)

\* make_complete_clique_gate_graph is returning its graph, master_graph
Returned == entry = "main" /\ pc = "ret"

\* the documented precondition of the composer
CliqueGatePre ==
    /\ num_big_components >= 2
    /\ big_component_size >= 1
    /\ gate_size >= 2
    /\ gate_size % 2 = 0
    /\ gate_size \div 2 <= big_component_size

\* the pairs (a, b), a < b, of big-component indices and their rank in the
\* enumeration with a outer and b inner
PairsOf(n) == {p \in (0..(n - 1)) \X (0..(n - 1)) : p[1] < p[2]}
PairRank(n, p) ==
    Cardinality({q \in PairsOf(n) : q[1] < p[1] \/ (q[1] = p[1] /\ q[2] < p[2])})
NumGates == Cardinality(PairsOf(num_big_components))

GateBlock(k) == (k * gate_size)..((k + 1) * gate_size - 1)
CompBlock(c) == (NumGates * gate_size + c * big_component_size)
                  ..(NumGates * gate_size + (c + 1) * big_component_size - 1)

IsClique(g, block) ==
    /\ block \subseteq NodeSet(g)
    /\ \A u, v \in block : u # v => Adjacent(g, u, v)

\* the nodes reachable from the nodes of frontier
RECURSIVE ReachFrom(_, _, _)
ReachFrom(g, frontier, seen) ==
    IF frontier = {} THEN seen
    ELSE LET next == (UNION {Nbrs(g, u) : u \in frontier}) \ (seen \cup frontier)
         IN  ReachFrom(g, next, seen \cup frontier)

\* nx.is_connected(g) for a graph with at least one node: a search from one node
\* meets every node
AlwaysConnected(g) == TRUE
is_connected(g) ==
    LET root == CHOOSE n \in NodeSet(g) : TRUE
    IN  ReachFrom(g, {root}, {}) = NodeSet(g)

\* C1: for num_big_components >= 2, big_component_size >= 1 and even
\* gate_size >= 2 with gate_size/2 <= big_component_size, the returned graph has
\* node set exactly [0, G*gate_size + num_big_components*big_component_size),
\* G = C(num_big_components, 2); gate k is the block [k*gate_size, (k+1)*gate_size),
\* component c the block after the gates, and every block induces a complete
\* subgraph.
C1_NodeBlocks ==
    (Returned /\ CliqueGatePre) =>
        /\ NodeSet(master_graph)
             = 0..(NumGates * gate_size + num_big_components * big_component_size - 1)
        /\ Len(master_graph.nodes)
             = NumGates * gate_size + num_big_components * big_component_size
        /\ Len(gates) = NumGates
        /\ Len(big_comps) = num_big_components
        /\ \A k \in 0..(NumGates - 1) :
              /\ NodeSet(gates[k + 1]) = GateBlock(k)
              /\ IsClique(master_graph, GateBlock(k))
        /\ \A c \in 0..(num_big_components - 1) :
              /\ NodeSet(big_comps[c + 1]) = CompBlock(c)
              /\ IsClique(master_graph, CompBlock(c))

C1_Witness ==
    /\ Returned /\ CliqueGatePre
    /\ num_big_components = 3 /\ big_component_size = 2 /\ gate_size = 4

\* the big components gate k has an edge into
GateComps(k) ==
    {c \in 0..(num_big_components - 1) :
        \E u \in GateBlock(k), v \in CompBlock(c) : Adjacent(master_graph, u, v)}

\* C2: the k-th gate is wired to the k-th pair (a, b), a < b, enumerated with a
\* outer and b inner: the p-th node of its first half is adjacent to the p-th
\* node of component a, the p-th node of its second half to the p-th node of
\* component b, and the gate has no other edge leaving it. Hence every pair of
\* big components is joined by exactly one gate, no gate touches more than two
\* big components, and the graph is connected.
C2_GateWiring ==
    (Returned /\ CliqueGatePre) =>
        /\ \A pr \in PairsOf(num_big_components) :
              LET k == PairRank(num_big_components, pr)
              IN  \A q \in 0..((gate_size \div 2) - 1) :
                    /\ Nbrs(master_graph, k * gate_size + q) \ GateBlock(k)
                         = {NumGates * gate_size + pr[1] * big_component_size + q}
                    /\ Nbrs(master_graph, k * gate_size + (gate_size \div 2) + q) \ GateBlock(k)
                         = {NumGates * gate_size + pr[2] * big_component_size + q}
        /\ \A pr \in PairsOf(num_big_components) :
              Cardinality({k \in 0..(NumGates - 1) : {pr[1], pr[2]} \subseteq GateComps(k)}) = 1
        /\ \A k \in 0..(NumGates - 1) : Cardinality(GateComps(k)) <= 2
        /\ is_connected(master_graph)

C2_Witness ==
    /\ Returned /\ CliqueGatePre
    /\ num_big_components = 4 /\ big_component_size = 3 /\ gate_size = 4

\* the neighbours of node u inside big component c
NbrsIn(u, c) == Nbrs(master_graph, u) \cap CompBlock(c)

IsExample232 ==
    /\ Returned
    /\ num_big_components = 2 /\ big_component_size = 3 /\ gate_size = 2

\* C3 as stated: in make_complete_clique_gate_graph(2, 3, 2) there are 8 nodes and
\* each of the gate's 2 nodes is adjacent to exactly one node in each of the two
\* big components.
C3_AsStated ==
    IsExample232 =>
        /\ Cardinality(NodeSet(master_graph)) = 8
        /\ \A u \in GateBlock(0) : \A c \in {0, 1} : Cardinality(NbrsIn(u, c)) = 1

\* C3 (amended): in make_complete_clique_gate_graph(2, 3, 2) there are 8 nodes
\* (1 gate of 2 nodes, 2 big components of 3 nodes each); the gate's first node
\* is adjacent to exactly one node of the first component and to none of the
\* second, and its second node to exactly one node of the second component and
\* to none of the first.
C3_OneComponentEach ==
    IsExample232 =>
        /\ Cardinality(NodeSet(master_graph)) = 8
        /\ Len(gates) = 1 /\ Len(gates[1].nodes) = 2
        /\ Len(big_comps) = 2 /\ \A c \in {1, 2} : Len(big_comps[c].nodes) = 3
        /\ Cardinality(NbrsIn(0, 0)) = 1 /\ NbrsIn(0, 1) = {}
        /\ Cardinality(NbrsIn(1, 1)) = 1 /\ NbrsIn(1, 0) = {}

C3_Witness == IsExample232 /\ Nbrs(master_graph, 0) = {1, 2} /\ Nbrs(master_graph, 1) = {0, 5}

---------------------------------------------------------------------------
(* Properties of main *)

\* C9 as stated: main given fewer than 3 arguments after the program name
\* prints the usage message and returns, without producing a graph and without
\* raising; only with at least 3 arguments does it parse them and build the graph.
C9_AsStated ==
    (entry = "main" /\ Len(argv) - 1 < 3) =>
        /\ pc \in {"main", "done"}
        /\ pc = "done" => result = "usage"
        /\ master_graph = EmptyGraph /\ G = EmptyGraph /\ first_line = -1

---------------------------------------------------------------------------
(* Properties of output_graph *)

\* the nodes of g incident to no edge, and those touching at least one edge
Isolated(g) == {n \in NodeSet(g) : g.adj[n] = <<>>}
Touching(g) == NodeSet(g) \ Isolated(g)

\* the nodes the printed edge lines and layout lines stand for
LayoutNodes == {layout_lines[k][2] : k \in DOMAIN layout_lines}

\* output_graph is over, normally or not
OutDone == pc = "done" /\ result \in {"ok", "KeyError"}

\* the nodes of g that precede every isolated node in node order
BeforeIsolated(g) ==
    {g.nodes[k] : k \in {j \in DOMAIN g.nodes :
                            \A h \in 1..j : g.nodes[h] \notin Isolated(g)}}

Encountered(k) == Dedup([j \in 1..(2 * k) |-> G_edges[(j + 1) \div 2][IF j % 2 = 1 THEN 1 ELSE 2]])

InEdgeLoop == pc \in {"edges", "layout"} \/ OutDone

\* the state part of C8
C8_Remapping ==
    InEdgeLoop =>
        LET k   == Len(edge_lines)
            enc == Encountered(k)
        IN  /\ k <= Len(G_edges)
            /\ pc # "edges" => k = Len(G_edges)
            \* identifiers are dense and given in order of first encounter
            /\ DOMAIN node_to_id = SeqToSet(enc)
            /\ \A j \in DOMAIN enc : node_to_id[enc[j]] = j - 1
            /\ current_id = Len(enc)
            \* a bijection onto [0, K)
            /\ \A m, n \in DOMAIN node_to_id : node_to_id[m] = node_to_id[n] => m = n
            /\ {node_to_id[n] : n \in DOMAIN node_to_id} = 0..(Cardinality(DOMAIN node_to_id) - 1)
            /\ pc # "edges" => DOMAIN node_to_id = Touching(G)
            \* the edge lines are the edges, renamed
            /\ \A j \in 1..k :
                  edge_lines[j] = <<node_to_id[G_edges[j][1]], node_to_id[G_edges[j][2]]>>
            \* renaming the lines back gives the edges
            /\ LET inv == [x \in 0..(current_id - 1) |->
                              CHOOSE n \in DOMAIN node_to_id : node_to_id[n] = x]
               IN  [j \in 1..k |-> <<inv[edge_lines[j][1]], inv[edge_lines[j][2]]>>]
                     = SubSeq(G_edges, 1, k)

\* an identifier once assigned never changes
C8_Stable ==
    \A n \in DOMAIN node_to_id : n \in DOMAIN node_to_id' /\ node_to_id'[n] = node_to_id[n]

\* C8: the remapping output_graph builds is a bijection between the nodes
\* touching at least one edge and [0, K), identifiers given in order of first
\* encounter (first endpoint before second, edges in traversal order); an
\* identifier once assigned never changes; the emitted edge lines are the
\* graph's edges in traversal order with both endpoints replaced by their
\* identifiers, so the inverse remapping reproduces the edges.
C8_RemappingBijection == []C8_Remapping /\ [][C8_Stable]_vars

\* a finished run whose remapping reorders the nodes
C8_Witness ==
    /\ pc = "done" /\ result = "ok" /\ edge_lines # <<>>
    /\ \E m, n \in DOMAIN node_to_id : m < n /\ node_to_id[m] > node_to_id[n]

---------------------------------------------------------------------------
(* networkgen/_social_circles.py *)

\* Bounds of the model
MaxAgents == 3
MaxTries == 2

\* width of the grid's dtype='uint8' cells
Uint8Modulus == 256

\* the agent types and grids the generator is run on
AgentTypes == { [color |-> "green", reach |-> 1],
                [color |-> "blue",  reach |-> 2] }
GridSizes == { <<3, 3>>, <<2, 3>> }

\* the mappings: up to two distinct agent types, each with a quantity >= 1,
\* at most MaxAgents agents in all
RECURSIVE SumQuantities(_)
SumQuantities(items) ==
    IF items = <<>> THEN 0 ELSE Head(items).quantity + SumQuantities(Tail(items))

Mappings ==
    { m \in UNION { [1..n -> [agent : AgentTypes, quantity : 1..MaxAgents]] : n \in 0..2 } :
        /\ \A a, b \in DOMAIN m : a # b => m[a].agent # m[b].agent
        /\ SumQuantities(m) <= MaxAgents }

\* sorted(items, key=reach, reverse=True): stable, so equal reaches keep their order
SortedByReach(items) ==
    LET Rank(k) == 1 + Cardinality({j \in DOMAIN items :
                          \/ items[j].agent.reach > items[k].agent.reach
                          \/ items[j].agent.reach = items[k].agent.reach /\ j < k})
    IN  [r \in DOMAIN items |-> items[CHOOSE k \in DOMAIN items : Rank(k) = r]]

Cells(size) == (0..(size[1] - 1)) \X (0..(size[2] - 1))

\* np.zeros(shape)
Zeros(domain) == [c \in domain |-> 0]

\* the value a uint8 cell keeps of an assigned integer
GridStore(v) == v % Uint8Modulus

\* choose_empty_spot: the cells its rejection sampling can return
EmptySpots(g) == {c \in DOMAIN g : ~(g[c] > 0)}

Max(a, b) == IF a >= b THEN a ELSE b
Min(a, b) == IF a <= b THEN a ELSE b

\* distance(x0, y0, x1, y1) <= reach: the square root of an integer is at most the
\* integer reach exactly when the integer is at most reach squared
DistanceSquared(x0, y0, x1, y1) == (x0 - x1) * (x0 - x1) + (y0 - y1) * (y0 - y1)
WithinBox(x0, y0, x1, y1, reach) ==
    /\ x0 - x1 <= reach /\ x1 - x0 <= reach
    /\ y0 - y1 <= reach /\ y1 - y0 <= reach
DistanceWithin(x0, y0, x1, y1, reach) == DistanceSquared(x0, y0, x1, y1) <= reach * reach

\* search_for_neighbors(grid, x, y), shape the grid's dimensions
search_with_closed_ranges(g, shape, x, y) ==
    LET reach == g[<<x, y>>]
        min_x == Max(0, x - reach)
        max_x == Min(shape[1] - 1, x + reach)
        min_y == Max(0, y - reach)
        max_y == Min(shape[2] - 1, y + reach)
    IN  {c \in (min_x..max_x) \X (min_y..max_y) :
            /\ g[c] > 0
            /\ DistanceWithin(x, y, c[1], c[2], reach)
            /\ <<x, y>> # c}
search_for_neighbors(g, shape, x, y) ==
    LET reach == g[<<x, y>>]
        min_x == Max(0, x - reach)
        max_x == Min(shape[1] - 1, x + reach)
        min_y == Max(0, y - reach)
        max_y == Min(shape[2] - 1, y + reach)
    IN  {c \in (min_x..(max_x - 1)) \X (min_y..(max_y - 1)) :
            /\ g[c] > 0
            /\ DistanceWithin(x, y, c[1], c[2], reach)
            /\ <<x, y>> # c}

\* lines 96-97 for every neighbour: M[a, b] = 1 and M[b, a] = 1
Connected(m, a, nbrIds) ==
    [e \in DOMAIN m |->
        IF (e[1] = a /\ e[2] \in nbrIds) \/ (e[2] = a /\ e[1] \in nbrIds) THEN 1 ELSE m[e]]

\* lines 99-101: colors
RECURSIVE ColorsOf(_)
ColorsOf(items) ==
    IF items = <<>> THEN <<>>
    ELSE [k \in 1..Head(items).quantity |-> Head(items).agent.color] \o ColorsOf(Tail(items))

\* lines 102-103: id -> (2*x/grid_size[0]-1, 2*y/grid_size[1]-1), each coordinate kept
\* as the fraction <<numerator, denominator>>
LayoutOf(l2i, size) ==
    [id \in {l2i[c] : c \in DOMAIN l2i} |->
        LET c == CHOOSE d \in DOMAIN l2i : l2i[d] = id
        IN  << <<2 * c[1] - size[1], size[1]>>, <<2 * c[2] - size[2], size[2]>> >>]

\* nx.Graph(M): nodes 0..n-1, an edge for every nonzero entry, rows first
GraphOf(m, n) ==
    LET Nonzero(e) == m[e] # 0
        entries == [k \in 1..(n * n) |-> <<(k - 1) \div n, (k - 1) % n>>]
    IN  AddEdgesFrom(AddNodesFrom(EmptyGraph, Range(0, n)), SelectSeq(entries, Nonzero))

\* line 63: for attempt in range(max_tries), and lines 64-76 of an attempt; line 114
\* when the attempts are used up
StartAttempt ==
    /\ sc_pc = "attempt"
    /\ IF attempt < max_tries
       THEN LET num_nodes == SumQuantities(agent_type_to_quantity)
            IN  /\ agents' = SortedByReach(agent_type_to_quantity)
                /\ grid' = Zeros(Cells(grid_size))
                /\ M' = Zeros((0..(num_nodes - 1)) \X (0..(num_nodes - 1)))
                /\ loc_to_id' = <<>>
                /\ sc_current_id' = 0
                /\ type_ind' = 0
                /\ placed' = 0
                /\ new_agents' = <<>>
                /\ sc_pc' = "place"
                /\ UNCHANGED sc_result
       ELSE /\ sc_result' = "None"
            /\ sc_pc' = "done"
            /\ UNCHANGED <<agents, grid, M, loc_to_id, sc_current_id, type_ind, placed,
                           new_agents>>
    /\ UNCHANGED <<agent_type_to_quantity, grid_size, force_connected, max_tries, attempt,
                   colors, layout, sc_G>>
    /\ UNCHANGED <<entry, pc, result, argv, cgVars, outVars>>

\* lines 77-89: the next agent type, and one placement of the current one
Place ==
    /\ sc_pc = "place"
    /\ IF type_ind >= Len(agents)
       THEN /\ sc_pc' = "finish"
            /\ UNCHANGED <<grid, loc_to_id, sc_current_id, placed, new_agents>>
       ELSE IF placed >= agents[type_ind + 1].quantity
       THEN /\ sc_pc' = "connect"
            /\ UNCHANGED <<grid, loc_to_id, sc_current_id, placed, new_agents>>
       ELSE \E spot \in EmptySpots(grid) :
            /\ grid' = [grid EXCEPT ![spot] = GridStore(agents[type_ind + 1].agent.reach)]
            /\ new_agents' = Append(new_agents, spot)
            /\ loc_to_id' = [c \in DOMAIN loc_to_id \cup {spot} |->
                                IF c = spot THEN sc_current_id ELSE loc_to_id[c]]
            /\ sc_current_id' = sc_current_id + 1
            /\ placed' = placed + 1
            /\ UNCHANGED sc_pc
    /\ UNCHANGED <<sc_result, agent_type_to_quantity, grid_size, force_connected, max_tries,
                   attempt, agents, M, type_ind, colors, layout, sc_G>>
    /\ UNCHANGED <<entry, pc, result, argv, cgVars, outVars>>

\* lines 93-97: for x, y in new_agents, from the k-th one on
RECURSIVE ConnectAll(_, _, _, _, _, _)
ConnectAll(m, g, shape, l2i, new, k) ==
    IF k > Len(new) THEN m
    ELSE LET xy == new[k]
             neighbors == search_for_neighbors(g, shape, xy[1], xy[2])
             m2 == Connected(m, l2i[xy], {l2i[c] : c \in neighbors})
         IN  ConnectAll(m2, g, shape, l2i, new, k + 1)

\* lines 93-97 for the agent type just placed; then the next agent type
Connect ==
    /\ sc_pc = "connect"
    /\ M' = ConnectAll(M, grid, grid_size, loc_to_id, new_agents, 1)
    /\ type_ind' = type_ind + 1
    /\ placed' = 0
    /\ new_agents' = <<>>
    /\ sc_pc' = "place"
    /\ UNCHANGED <<sc_result, agent_type_to_quantity, grid_size, force_connected, max_tries,
                   attempt, agents, grid, loc_to_id, sc_current_id, colors, layout, sc_G>>
    /\ UNCHANGED <<entry, pc, result, argv, cgVars, outVars>>

\* lines 99-111: colors, layout, the graph, and the connectivity test. colors,
\* layout and sc_G hold the returned tuple; an attempt that fails hands nothing on.
Finish ==
    /\ sc_pc = "finish"
    /\ LET g == GraphOf(M, SumQuantities(agent_type_to_quantity))
           Success == /\ sc_G' = g
                     /\ layout' = LayoutOf(loc_to_id, grid_size)
                     /\ colors' = ColorsOf(agent_type_to_quantity)
                     /\ sc_result' = "returned"
                     /\ sc_pc' = "done"
                     /\ UNCHANGED attempt
       IN  IF ~force_connected
           THEN Success
           ELSE IF NodeSet(g) = {}
           THEN /\ sc_result' = "NetworkXPointlessConcept"
                /\ sc_pc' = "done"
                /\ UNCHANGED <<attempt, sc_G, layout, colors>>
           ELSE IF is_connected(g)
           THEN Success
           ELSE /\ attempt' = attempt + 1
                /\ sc_pc' = "attempt"
                /\ UNCHANGED <<sc_result, sc_G, layout, colors>>
    /\ UNCHANGED <<agent_type_to_quantity, grid_size, force_connected, max_tries,
                   agents, grid, M, loc_to_id, sc_current_id, type_ind, placed,
                   new_agents>>
    /\ UNCHANGED <<entry, pc, result, argv, cgVars, outVars>>

InitSC ==
    /\ entry = "make_social_circles_network" /\ pc = "off" /\ result = "running"
    /\ argv = <<>> /\ G = EmptyGraph /\ NoGraphState /\ NoOutputState
    /\ sc_pc = "attempt" /\ sc_result = "running"
    /\ agent_type_to_quantity \in Mappings
    /\ grid_size \in GridSizes
    /\ force_connected \in BOOLEAN
    /\ max_tries \in 1..MaxTries
    \* the default max_tries=5 stands for every value when force_connected is off
    /\ force_connected \/ max_tries = 1
    /\ attempt = 0
    /\ agents = <<>> /\ grid = <<>> /\ M = <<>> /\ loc_to_id = <<>>
    /\ sc_current_id = 0 /\ type_ind = 0 /\ placed = 0 /\ new_agents = <<>>
    /\ colors = <<>> /\ layout = <<>> /\ sc_G = EmptyGraph

NextSC ==
    \/ StartAttempt
    \/ Place
    \/ Connect
    \/ Finish

SpecSC == InitSC /\ [][NextSC]_vars

---------------------------------------------------------------------------
(* Properties of make_social_circles_network *)

NumNodes == SumQuantities(agent_type_to_quantity)
Ids == 0..(NumNodes - 1)

\* the agent type of the agent placed as node id: agents are numbered as they
\* are placed, type after type in the order of agents
RECURSIVE TypeAt(_, _)
TypeAt(items, id) ==
    IF id < Head(items).quantity THEN Head(items).agent
    ELSE TypeAt(Tail(items), id - Head(items).quantity)
TypeOfId(id) == TypeAt(agents, id)

\* the cell of the agent placed as node id
CellOfId(id) == CHOOSE c \in DOMAIN loc_to_id : loc_to_id[c] = id
Placed == {loc_to_id[c] : c \in DOMAIN loc_to_id}

\* the pairs of nodes of g joined by a path, by Warshall's closure over the
\* first k nodes
RECURSIVE PathPairs(_, _)
PathPairs(g, k) ==
    IF k = 0 THEN {<<u, v>> \in NodeSet(g) \X NodeSet(g) : Adjacent(g, u, v)}
    ELSE LET R == PathPairs(g, k - 1)
             n == g.nodes[k]
         IN  R \cup {<<u, v>> \in NodeSet(g) \X NodeSet(g) : <<u, n>> \in R /\ <<n, v>> \in R}

OneComponent(g) ==
    /\ NodeSet(g) # {}
    /\ \A u, v \in NodeSet(g) : u # v => <<u, v>> \in PathPairs(g, Len(g.nodes))

InAttempt == sc_pc \in {"place", "connect", "finish"}

\* the state part of C4
C4_State ==
    (sc_pc # "off" /\ force_connected) =>
        /\ attempt <= max_tries
        /\ InAttempt => attempt < max_tries
        /\ sc_result = "returned" =>
              /\ OneComponent(sc_G)
              /\ sc_G = GraphOf(M, NumNodes)
              /\ Len(colors) = NumNodes
              /\ DOMAIN layout = Ids
        /\ sc_result = "None" => attempt = max_tries /\ sc_G = EmptyGraph
        /\ (sc_pc = "done" /\ attempt = max_tries) => sc_result = "None"

\* the step part of C4: the attempt counter moves only past an attempt whose
\* graph is disconnected, and once max_tries attempts are used up the call
\* returns None
C4_Step ==
    force_connected =>
        /\ attempt' # attempt =>
              /\ attempt' = attempt + 1
              /\ sc_pc = "finish"
              /\ NumNodes > 0 /\ ~OneComponent(GraphOf(M, NumNodes))
        /\ (sc_pc = "attempt" /\ attempt >= max_tries /\ sc_pc' # sc_pc) => sc_result' = "None"
        /\ (sc_pc = "finish" /\ sc_pc' = "attempt") => ~OneComponent(GraphOf(M, NumNodes))
        /\ (sc_pc = "finish" /\ NumNodes > 0 /\ OneComponent(GraphOf(M, NumNodes))
              /\ sc_pc' # sc_pc) => sc_result' = "returned"

\* C4: with force_connected=True and max_tries >= 1 the call makes at most
\* max_tries attempts; it returns a result only for an attempt whose graph has
\* exactly one connected component, and returns None exactly when all max_tries
\* attempts produced a disconnected graph. A disconnected graph is never returned.
C4_ConnectedOrNone == []C4_State /\ [][C4_Step]_vars

\* a connected graph of three agents returned by the second attempt
C4_Witness ==
    /\ force_connected /\ sc_result = "returned" /\ attempt = 1
    /\ NumNodes = 3 /\ Cardinality({e \in DOMAIN M : M[e] = 1}) = 4

\* the failure signal after max_tries = 2 disconnected attempts
C4_WitnessNone == force_connected /\ sc_result = "None" /\ max_tries = 2

\* C5 as stated: in every successful result colors[i] is the color of the agent
\* type of the agent placed as node i, for every input mapping, also one whose
\* agent types are not listed in descending order of reach.
C5_AsStated ==
    sc_result = "returned" =>
        /\ Len(colors) = NumNodes
        /\ \A id \in Ids : colors[id + 1] = TypeOfId(id).color

\* C6: every edge (u, v) of every graph built joins two distinct placed agents
\* whose Euclidean grid distance is <= reach(u) or <= reach(v); the adjacency
\* data is symmetric and has no self-loop.
C6_EdgesWithinReach ==
    sc_pc \in {"place", "finish"} =>
        /\ DOMAIN M = Ids \X Ids
        /\ \A e \in DOMAIN M :
              /\ M[e] \in {0, 1}
              /\ M[e] = 1 <=> M[<<e[2], e[1]>>] = 1
              /\ M[e] = 1 =>
                    /\ e[1] # e[2]
                    /\ {e[1], e[2]} \subseteq Placed
                    /\ LET a == CellOfId(e[1])
                           b == CellOfId(e[2])
                           d2 == (a[1] - b[1]) * (a[1] - b[1]) + (a[2] - b[2]) * (a[2] - b[2])
                       IN  \/ d2 <= TypeOfId(e[1]).reach * TypeOfId(e[1]).reach
                           \/ d2 <= TypeOfId(e[2]).reach * TypeOfId(e[2]).reach

\* a returned graph with an edge between agents of different reach, and another
\* pair of agents left unconnected
C6_Witness ==
    /\ sc_pc = "finish"
    /\ \E e \in DOMAIN M : M[e] = 1 /\ TypeOfId(e[1]).reach # TypeOfId(e[2]).reach
    /\ \E e \in DOMAIN M : M[e] = 0 /\ e[1] # e[2]

\* the occupied cells other than (x, y) within Euclidean distance r of it
InReach(x, y) ==
    {c \in DOMAIN grid :
        /\ grid[c] > 0
        /\ c # <<x, y>>
        /\ (x - c[1]) * (x - c[1]) + (y - c[2]) * (y - c[2]) <= grid[<<x, y>>] * grid[<<x, y>>]}

\* the cells holding an agent
Occupied == {c \in DOMAIN grid : grid[c] > 0}

\* make_social_circles_network is about to call search_for_neighbors(grid, x, y)
\* for every (x, y) of new_agents
Searching == sc_pc = "connect"

\* C10 as stated: search_for_neighbors for an agent at (x, y) with reach r
\* returns exactly the occupied cells other than (x, y) within distance r, except
\* the cells with i = x + r or j = y + r; so an occupied cell of the last row or
\* column that is closer than x + r and y + r is returned.
C10_AsStated ==
    Searching =>
        \A xy \in SeqToSet(new_agents) :
            search_for_neighbors(grid, grid_size, xy[1], xy[2])
              = {c \in InReach(xy[1], xy[2]) :
                    c[1] # xy[1] + grid[xy] /\ c[2] # xy[2] + grid[xy]}

\* C10 (amended): search_for_neighbors returns exactly the occupied cells other
\* than (x, y) within distance r, except the cells with i = x + r or j = y + r
\* and the cells of the last row (i = W-1) and of the last column (j = H-1); so
\* two agents that both sit in the last row, or both in the last column, are
\* never connected to each other.
C10_LastRowAndColumnExcluded ==
    /\ Searching =>
          \A xy \in SeqToSet(new_agents) :
              search_for_neighbors(grid, grid_size, xy[1], xy[2])
                = {c \in InReach(xy[1], xy[2]) :
                      /\ c[1] # xy[1] + grid[xy] /\ c[2] # xy[2] + grid[xy]
                      /\ c[1] # grid_size[1] - 1 /\ c[2] # grid_size[2] - 1}
    /\ sc_pc = "finish" =>
          \A a, b \in DOMAIN loc_to_id :
              \/ (a[1] = grid_size[1] - 1 /\ b[1] = grid_size[1] - 1)
              \/ (a[2] = grid_size[2] - 1 /\ b[2] = grid_size[2] - 1)
              => M[<<loc_to_id[a], loc_to_id[b]>>] = 0

\* two agents of one type, side by side in the last row, left unconnected, and
\* another agent whose search returned a neighbour
C10_Witness ==
    /\ sc_pc = "finish"
    /\ \E u, v \in Placed :
          /\ u # v /\ TypeOfId(u) = TypeOfId(v)
          /\ CellOfId(u)[1] = grid_size[1] - 1 /\ CellOfId(v)[1] = grid_size[1] - 1
          /\ CellOfId(v) \in InReach(CellOfId(u)[1], CellOfId(u)[2])
          /\ M[<<u, v>>] = 0
    /\ \E xy \in Occupied : search_for_neighbors(grid, grid_size, xy[1], xy[2]) # {}

=============================================================================
